---- MODULE Spec2Model ----
(***************************************************************************)
(* Model of src/hand_arduino_controller.py: the finger counter              *)
(* (AHMDHandDetector.akCountFingers), the serial command channel            *)
(* (AKArduinoController) and the control loop                               *)
(* (AHMDGestureController.ahmdRunMainLoop).                                 *)
(*                                                                          *)
(* Two specifications share the variables:                                  *)
(*   Spec         one run of ahmdRunMainLoop, stepped at its call sites;    *)
(*   ChannelSpec  an AKArduinoController driven by an arbitrary sequence of *)
(*                ahmdConnect / akSendData / ahmdDisconnect calls.          *)
(* The libraries (cv2, mediapipe, serial) are the environment: each call    *)
(* into them takes its outcome from a small set.                            *)
(***************************************************************************)
EXTENDS Integers, Sequences, FiniteSets, TLC

\* ------------------------------------------------------------ bounds
MaxPorts == 2       \* serial.Serial objects the environment may hand out
MaxCalls == 5       \* channel calls made under ChannelSpec
MaxFrames == 2      \* frames camera.read() delivers in one run

\* ------------------------------------------------------------ constants
None == 0           \* Python None for self.arduino
LandmarkCount == 21
EscKey == 27
ByteMask == 255     \* 0xFF
AsciiZero == 48     \* ord("0")

VARIABLES
  \* AKArduinoController
  arduino,        \* self.arduino: None or the serial.Serial object (its id)
  isConnected,    \* self.isConnected
  \* the serial transports (serial.Serial objects)
  portState,      \* per object: "unopened", "booting" (open, settle wait not
                  \* finished), "ready" (open, settled), "closed"
  closeCalls,     \* per object: number of close() calls received
  wire,           \* sequence of <<object, bytes>>: every write() that went out
  lastCall,       \* the most recent channel call: op, prev (the op of the
                  \* call before it), env (what the library did), ret
                  \* (return value), raised (exception it let out)
  calls,          \* number of calls of each channel method so far
  \* AHMDGestureController
  camera,         \* self.camera: "None", "closed" (object, not opened),
                  \* "opened", "released"
  running,        \* self.running
  windowOpen,     \* a cv2 window exists
  pc,             \* position in ahmdRunMainLoop
  frames,         \* frames read so far
  detects,        \* akDetectHands calls so far
  renders,        \* frames shown so far
  all_landmarks,  \* the current iteration's detection result (a local,
                  \* empty until akDetectHands has returned)
  finger_count,   \* the current iteration's finger_count (a local)
  itSends,        \* values passed to akSendData in the current iteration
  shown,          \* finger count drawn in the overlay of the current iteration
  cleanupRuns,    \* runs of akCleanupResources
  exitReason,     \* why the run left its normal path
  mode,           \* "starting", then "connected" or "camera-only" by the
                  \* result of the startup connect
  outcome         \* "running", "returned", "raised"

chanVars == <<arduino, isConnected, portState, closeCalls, wire, lastCall, calls>>
iterVars == <<all_landmarks, finger_count, itSends, shown>>
runVars == <<camera, running, windowOpen, pc, frames, detects, renders,
             all_landmarks, finger_count, itSends, shown, cleanupRuns,
             exitReason, mode, outcome>>
vars == <<arduino, isConnected, portState, closeCalls, wire, lastCall, calls,
          camera, running, windowOpen, pc, frames, detects, renders,
          all_landmarks, finger_count, itSends, shown, cleanupRuns,
          exitReason, mode, outcome>>

\* ------------------------------------------------------------ Python helpers
\* seq[i] with Python's 0-based index
At(seq, i) == seq[i + 1]

Digits == <<"0", "1", "2", "3", "4", "5", "6", "7", "8", "9">>

\* str(n) for a non-negative int: its decimal digits, as characters
RECURSIVE PyStr(_)
PyStr(n) == IF n < 10 THEN <<At(Digits, n)>>
            ELSE PyStr(n \div 10) \o <<At(Digits, n % 10)>>

DigitValue(c) == CHOOSE d \in 0..9 : At(Digits, d) = c

\* Mutant of Utf8: the text is framed with a trailing line feed.
Utf8WithNewline(text) ==
  [k \in 1..Len(text) |-> AsciiZero + DigitValue(text[k])] \o <<10>>

\* bytes(text, 'utf-8') for decimal text: one ASCII byte per digit
Utf8(text) == [k \in 1..Len(text) |-> AsciiZero + DigitValue(text[k])]

\* ------------------------------------------------------------ AHMDHandDetector
akFingerTipIds == <<4, 8, 12, 16, 20>>

\* A landmark is the tuple (id, cx, cy) built by akDetectHands.
Landmark(id, cx, cy) == <<id, cx, cy>>

\* Mutant of akCountFingers: the length test is `<` instead of `!=`.
akCountFingersLongAccepted(landmarks) ==
  IF Len(landmarks) < LandmarkCount THEN 0
  ELSE LET thumb == IF At(At(landmarks, At(akFingerTipIds, 0)), 1)
                          > At(At(landmarks, At(akFingerTipIds, 0) - 1), 1)
                    THEN 1 ELSE 0
           finger(i) == IF At(At(landmarks, At(akFingerTipIds, i)), 2)
                             < At(At(landmarks, At(akFingerTipIds, i) - 2), 2)
                        THEN 1 ELSE 0
       IN thumb + finger(1) + finger(2) + finger(3) + finger(4)

akCountFingers(landmarks) ==
  IF Len(landmarks) # LandmarkCount THEN 0
  ELSE LET thumb == IF At(At(landmarks, At(akFingerTipIds, 0)), 1)
                          > At(At(landmarks, At(akFingerTipIds, 0) - 1), 1)
                    THEN 1 ELSE 0
           finger(i) == IF At(At(landmarks, At(akFingerTipIds, i)), 2)
                             < At(At(landmarks, At(akFingerTipIds, i) - 2), 2)
                        THEN 1 ELSE 0
       IN thumb + finger(1) + finger(2) + finger(3) + finger(4)

\* Hands the detector may report.  MakeHand places the thumb tip (id 4) and
\* its adjacent joint (id 3) at the given x, and the four other tips
\* (8, 12, 16, 20) and their joints two below (6, 10, 14, 18) at the given y.
MakeHand(thumbTipX, thumbJointX, tipY, jointY) ==
  [k \in 1..LandmarkCount |->
     LET id == k - 1 IN
     IF id = 4 THEN Landmark(id, thumbTipX, 5)
     ELSE IF id = 3 THEN Landmark(id, thumbJointX, 5)
     ELSE IF id \in {8, 12, 16, 20} THEN Landmark(id, 5, tipY[id \div 4 - 1])
     ELSE IF id \in {6, 10, 14, 18} THEN Landmark(id, 5, jointY[(id + 2) \div 4 - 1])
     ELSE Landmark(id, 5, 5)]

OpenHand == MakeHand(8, 6, <<2, 2, 2, 2>>, <<4, 4, 4, 4>>)
FistHand == MakeHand(6, 8, <<6, 6, 6, 6>>, <<4, 4, 4, 4>>)
ThreeHand == MakeHand(6, 8, <<2, 2, 2, 6>>, <<4, 4, 4, 4>>)
ShortHand == SubSeq(OpenHand, 1, LandmarkCount - 1)

\* Results of akDetectHands: zero, one or two hands.
HandLists == { <<>>, <<ThreeHand>>, <<OpenHand>>, <<FistHand>>, <<ShortHand>>,
               <<ThreeHand, OpenHand>>, <<OpenHand, ThreeHand>>,
               <<ShortHand, OpenHand>> }

\* ------------------------------------------------------------ AKArduinoController
Ports == 1..MaxPorts

\* The object the next serial.Serial(...) call constructs.
CanOpen == \E p \in Ports : portState[p] = "unopened"
FreshPort == CHOOSE p \in Ports :
               /\ portState[p] = "unopened"
               /\ \A q \in Ports : q < p => portState[q] # "unopened"

\* What serial.Serial(...) followed by time.sleep(2) can do.
ConnectOutcomes == {"ok", "SerialException", "ValueError", "KeyboardInterrupt"}
\* What Serial.write can do.
WriteOutcomes == {"ok", "SerialException", "OSError", "KeyboardInterrupt"}

Called(op) == [calls EXCEPT ![op] = @ + 1]
TotalCalls == calls.connect + calls.send + calls.disconnect

\* ahmdConnect.  "ok": the port opens and the settle wait completes.
\* "SerialException": serial.Serial raises it (device absent, permission
\* denied, in use).  "ValueError": serial.Serial rejects its parameters.
\* "KeyboardInterrupt": the port opens and the interrupt lands in the sleep.
\* Mutant of ahmdConnect: the SerialException handler does not reset
\* isConnected.
ahmdConnectKeepingFlag(o) ==
  /\ calls' = Called("connect")
  /\ CASE o = "ok" ->
            /\ arduino' = FreshPort
            /\ portState' = [portState EXCEPT ![FreshPort] = "ready"]
            /\ isConnected' = TRUE
            /\ lastCall' = [op |-> "connect", prev |-> lastCall.op, env |-> o,
                          ret |-> "True", raised |-> "none"]
       [] o = "SerialException" ->
            /\ lastCall' = [op |-> "connect", prev |-> lastCall.op, env |-> o,
                          ret |-> "False", raised |-> "none"]
            /\ UNCHANGED <<arduino, portState, isConnected>>
       [] o = "ValueError" ->
            /\ lastCall' = [op |-> "connect", prev |-> lastCall.op, env |-> o,
                          ret |-> "None", raised |-> o]
            /\ UNCHANGED <<arduino, portState, isConnected>>
       [] o = "KeyboardInterrupt" ->
            /\ arduino' = FreshPort
            /\ portState' = [portState EXCEPT ![FreshPort] = "booting"]
            /\ lastCall' = [op |-> "connect", prev |-> lastCall.op, env |-> o,
                          ret |-> "None", raised |-> o]
            /\ UNCHANGED isConnected
  /\ UNCHANGED <<closeCalls, wire>>

ahmdConnect(o) ==
  /\ calls' = Called("connect")
  /\ CASE o = "ok" ->
            /\ arduino' = FreshPort
            /\ portState' = [portState EXCEPT ![FreshPort] = "ready"]
            /\ isConnected' = TRUE
            /\ lastCall' = [op |-> "connect", prev |-> lastCall.op, env |-> o,
                          ret |-> "True", raised |-> "none"]
       [] o = "SerialException" ->
            /\ isConnected' = FALSE
            /\ lastCall' = [op |-> "connect", prev |-> lastCall.op, env |-> o,
                          ret |-> "False", raised |-> "none"]
            /\ UNCHANGED <<arduino, portState>>
       [] o = "ValueError" ->
            /\ lastCall' = [op |-> "connect", prev |-> lastCall.op, env |-> o,
                          ret |-> "None", raised |-> o]
            /\ UNCHANGED <<arduino, portState, isConnected>>
       [] o = "KeyboardInterrupt" ->
            /\ arduino' = FreshPort
            /\ portState' = [portState EXCEPT ![FreshPort] = "booting"]
            /\ lastCall' = [op |-> "connect", prev |-> lastCall.op, env |-> o,
                          ret |-> "None", raised |-> o]
            /\ UNCHANGED isConnected
  /\ UNCHANGED <<closeCalls, wire>>

\* Mutant of SendRefused: the isConnected test is missing.
SendRefusedOnlyWithoutPort == arduino = None

\* The guard of akSendData (line 155).
SendRefused == ~isConnected \/ arduino = None

\* What the write does on the transport: a closed port refuses the write with
\* PortNotOpenError, a SerialException.
WriteEffect(w) == IF portState[arduino] = "closed" THEN "SerialException" ELSE w

\* Mutant of akSendData: a failed write marks the channel not connected.
akSendDataDemoting(data, w) ==
  /\ calls' = Called("send")
  /\ IF SendRefused
     THEN /\ lastCall' = [op |-> "send", prev |-> lastCall.op, env |-> "none",
                          ret |-> "False", raised |-> "none"]
          /\ UNCHANGED <<wire, isConnected>>
     ELSE LET e == WriteEffect(w) IN
          CASE e = "ok" ->
                 /\ wire' = Append(wire, <<arduino, Utf8(PyStr(data))>>)
                 /\ lastCall' = [op |-> "send", prev |-> lastCall.op, env |-> e,
                          ret |-> "True", raised |-> "none"]
                 /\ UNCHANGED isConnected
            [] e = "SerialException" ->
                 /\ lastCall' = [op |-> "send", prev |-> lastCall.op, env |-> e,
                          ret |-> "False", raised |-> "none"]
                 /\ isConnected' = FALSE
                 /\ UNCHANGED wire
            [] OTHER ->
                 /\ lastCall' = [op |-> "send", prev |-> lastCall.op, env |-> e,
                          ret |-> "None", raised |-> e]
                 /\ UNCHANGED <<wire, isConnected>>
  /\ UNCHANGED <<arduino, portState, closeCalls>>

akSendData(data, w) ==
  /\ calls' = Called("send")
  /\ IF SendRefused
     THEN /\ lastCall' = [op |-> "send", prev |-> lastCall.op, env |-> "none",
                          ret |-> "False", raised |-> "none"]
          /\ UNCHANGED wire
     ELSE LET e == WriteEffect(w) IN
          CASE e = "ok" ->
                 /\ wire' = Append(wire, <<arduino, Utf8(PyStr(data))>>)
                 /\ lastCall' = [op |-> "send", prev |-> lastCall.op, env |-> e,
                          ret |-> "True", raised |-> "none"]
            [] e = "SerialException" ->
                 /\ lastCall' = [op |-> "send", prev |-> lastCall.op, env |-> e,
                          ret |-> "False", raised |-> "none"]
                 /\ UNCHANGED wire
            [] OTHER ->
                 /\ lastCall' = [op |-> "send", prev |-> lastCall.op, env |-> e,
                          ret |-> "None", raised |-> e]
                 /\ UNCHANGED wire
  /\ UNCHANGED <<arduino, isConnected, portState, closeCalls>>

\* Mutant of DisconnectGuard: the isConnected test is missing.
DisconnectGuardOnlyPort == arduino # None

\* The guard of ahmdDisconnect (line 167).
DisconnectGuard == arduino # None /\ isConnected

ahmdDisconnect ==
  /\ calls' = Called("disconnect")
  /\ IF DisconnectGuard
     THEN /\ portState' = [portState EXCEPT ![arduino] = "closed"]
          /\ closeCalls' = [closeCalls EXCEPT ![arduino] = @ + 1]
          /\ isConnected' = FALSE
     ELSE UNCHANGED <<portState, closeCalls, isConnected>>
  /\ lastCall' = [op |-> "disconnect", prev |-> lastCall.op, env |-> "none",
                          ret |-> "None", raised |-> "none"]
  /\ UNCHANGED <<arduino, wire>>

\* ------------------------------------------------------------ initial state
\* AKArduinoController.__init__ and AHMDGestureController.__init__
Init ==
  /\ arduino = None
  /\ isConnected = FALSE
  /\ portState = [p \in Ports |-> "unopened"]
  /\ closeCalls = [p \in Ports |-> 0]
  /\ wire = <<>>
  /\ lastCall = [op |-> "none", prev |-> "none", env |-> "none", ret |-> "None", raised |-> "none"]
  /\ calls = [connect |-> 0, send |-> 0, disconnect |-> 0]
  /\ camera = "None"
  /\ running = FALSE
  /\ windowOpen = FALSE
  /\ pc = "init"
  /\ frames = 0
  /\ detects = 0
  /\ renders = 0
  /\ all_landmarks = <<>>
  /\ finger_count = 0
  /\ itSends = <<>>
  /\ shown = -1
  /\ cleanupRuns = 0
  /\ exitReason = "none"
  /\ mode = "starting"
  /\ outcome = "running"

\* ------------------------------------------------------------ ChannelSpec
\* A caller that makes any sequence of channel calls.
SendValues == {0, 3}

CallConnect(o) ==
  /\ TotalCalls < MaxCalls
  /\ o \in {"ok", "KeyboardInterrupt"} => CanOpen
  /\ ahmdConnect(o)
  /\ UNCHANGED runVars

CallSend(data, w) ==
  /\ TotalCalls < MaxCalls
  /\ akSendData(data, w)
  /\ UNCHANGED runVars

CallDisconnect ==
  /\ TotalCalls < MaxCalls
  /\ ahmdDisconnect
  /\ UNCHANGED runVars

ChannelNext ==
  \/ \E o \in ConnectOutcomes : CallConnect(o)
  \/ \E data \in SendValues, w \in WriteOutcomes : CallSend(data, w)
  \/ CallDisconnect

ChannelSpec == Init /\ [][ChannelNext]_vars

\* ------------------------------------------------------------ CountSpec
\* akCountFingers applied to one landmark list.  The well-formed hands have
\* the palm at x = 5 and the thumb (tip x, joint x) to its right or to its
\* left, pointing away from the palm, towards it, or level; each other
\* finger's tip is above, level with or below its joint.  The malformed
\* lists are empty, one landmark, one short of a hand and one more than a hand.
ThumbXs == { <<8, 6>>, <<6, 8>>, <<6, 6>>, <<2, 4>>, <<4, 2>> }
TipYs == {2, 4, 6}

WellFormedHands ==
  { MakeHand(t[1], t[2], <<y1, y2, y3, y4>>, <<4, 4, 4, 4>>) :
      t \in ThumbXs,
      y1 \in TipYs, y2 \in TipYs, y3 \in TipYs, y4 \in TipYs }

MalformedHands ==
  { <<>>, <<Landmark(0, 5, 5)>> }
    \cup { SubSeq(h, 1, LandmarkCount - 1) : h \in {OpenHand, FistHand, ThreeHand} }
    \cup { h \o <<Landmark(LandmarkCount, 5, 5)>> : h \in {OpenHand, FistHand, ThreeHand} }

CountHands == WellFormedHands \cup MalformedHands

CountInit ==
  /\ arduino = None
  /\ isConnected = FALSE
  /\ portState = [p \in Ports |-> "unopened"]
  /\ closeCalls = [p \in Ports |-> 0]
  /\ wire = <<>>
  /\ lastCall = [op |-> "none", prev |-> "none", env |-> "none",
                 ret |-> "None", raised |-> "none"]
  /\ calls = [connect |-> 0, send |-> 0, disconnect |-> 0]
  /\ camera = "None"
  /\ running = FALSE
  /\ windowOpen = FALSE
  /\ pc = "count"
  /\ frames = 0
  /\ detects = 0
  /\ renders = 0
  /\ all_landmarks \in { <<h>> : h \in CountHands }
  /\ finger_count = -1
  /\ itSends = <<>>
  /\ shown = -1
  /\ cleanupRuns = 0
  /\ exitReason = "none"
  /\ mode = "starting"
  /\ outcome = "running"

\* finger_count = self.hand_detector.akCountFingers(all_landmarks[0])
CountFingers ==
  /\ pc = "count"
  /\ finger_count' = akCountFingers(At(all_landmarks, 0))
  /\ pc' = "counted"
  /\ UNCHANGED <<camera, running, windowOpen, frames, detects, renders,
                 all_landmarks, itSends, shown, cleanupRuns, exitReason,
                 mode, outcome>>
  /\ UNCHANGED chanVars

CountSpec == CountInit /\ [][CountFingers]_vars

\* ------------------------------------------------------------ AHMDGestureController
\* What cv2.VideoCapture(...) / isOpened() can do.
CameraOutcomes == {"opened", "notOpened", "Exception", "KeyboardInterrupt"}
\* What camera.read() can do.
ReadOutcomes == {"frame", "noframe", "Exception", "KeyboardInterrupt"}
\* What a cv2 / mediapipe call inside the loop can do.
StepOutcomes == {"ok", "Exception", "KeyboardInterrupt"}
\* Raw values of cv2.waitKey(1): no key, ESC, "q", ESC with a modifier bit.
KeyCodes == {-1, 27, 113, 283}

LoopPcs == {"read", "process", "render", "poll"}

\* Mutant of ahmdInitializeCamera: the isOpened() check is missing.
ahmdInitializeCameraUnchecked(c) ==
  CASE c \in {"opened", "notOpened"} ->
         [camera |-> IF c = "opened" THEN "opened" ELSE "closed",
          ret |-> TRUE, raised |-> "none"]
    [] c = "Exception" -> [camera |-> camera, ret |-> FALSE, raised |-> "none"]
    [] c = "KeyboardInterrupt" -> [camera |-> camera, ret |-> FALSE, raised |-> c]

\* ahmdInitializeCamera: the new self.camera, the return value and what it
\* lets out.  `except Exception` catches everything but the interrupt.
ahmdInitializeCamera(c) ==
  CASE c = "opened" -> [camera |-> "opened", ret |-> TRUE, raised |-> "none"]
    [] c = "notOpened" -> [camera |-> "closed", ret |-> FALSE, raised |-> "none"]
    [] c = "Exception" -> [camera |-> camera, ret |-> FALSE, raised |-> "none"]
    [] c = "KeyboardInterrupt" -> [camera |-> camera, ret |-> FALSE, raised |-> c]

\* Mutant of Handle: the cleanup sits after the try statement's normal path
\* only, so a caught exception skips it.
HandleSkippingCleanup(e) ==
  /\ pc' = "done"
  /\ exitReason' = IF e = "KeyboardInterrupt" THEN "interrupt" ELSE "exception"

\* Mutant of Handle: the handlers sit inside the loop, so after a caught
\* exception the loop goes on with the next frame.
HandleContinuing(e) ==
  /\ pc' = "read"
  /\ exitReason' = IF e = "KeyboardInterrupt" THEN "interrupt" ELSE "exception"

\* The handlers of the try statement of ahmdRunMainLoop (lines 277-282):
\* both clauses only log, then the finally clause runs.
Handle(e) ==
  /\ pc' = "cleanup"
  /\ exitReason' = IF e = "KeyboardInterrupt" THEN "interrupt" ELSE "exception"

\* An exception outside the try statement leaves ahmdRunMainLoop at once.
Propagate(reason) ==
  /\ pc' = "done"
  /\ outcome' = "raised"
  /\ exitReason' = reason

\* Lines 249-251.
StartCamera(c) ==
  /\ pc = "init"
  /\ LET r == ahmdInitializeCamera(c) IN
       /\ camera' = r.camera
       /\ IF r.raised # "none" THEN Propagate("initfault")
          ELSE IF ~r.ret
          THEN /\ pc' = "done"
               /\ outcome' = "returned"
               /\ exitReason' = "camfail"
          ELSE /\ pc' = "connect"
               /\ UNCHANGED <<outcome, exitReason>>
  /\ UNCHANGED <<running, windowOpen, frames, detects, renders, cleanupRuns, mode>>
  /\ UNCHANGED iterVars
  /\ UNCHANGED chanVars

\* Mutant of StartConnect: a failed connect is tried again.
StartConnectRetrying(o) ==
  /\ pc = "connect"
  /\ ahmdConnect(o)
  /\ IF lastCall'.raised # "none"
     THEN /\ Propagate("connectfault")
          /\ UNCHANGED <<running, mode>>
     ELSE IF lastCall'.ret = "False"
     THEN /\ mode' = "camera-only"
          /\ UNCHANGED <<running, pc, outcome, exitReason>>
     ELSE /\ mode' = "connected"
          /\ running' = TRUE
          /\ pc' = "read"
          /\ UNCHANGED <<outcome, exitReason>>
  /\ UNCHANGED <<camera, windowOpen, frames, detects, renders, cleanupRuns>>
  /\ UNCHANGED iterVars

\* Lines 253-259.
StartConnect(o) ==
  /\ pc = "connect"
  /\ ahmdConnect(o)
  /\ IF lastCall'.raised # "none"
     THEN /\ Propagate("connectfault")
          /\ UNCHANGED <<running, mode>>
     ELSE /\ mode' = IF lastCall'.ret = "True" THEN "connected" ELSE "camera-only"
          /\ running' = TRUE
          /\ pc' = "read"
          /\ UNCHANGED <<outcome, exitReason>>
  /\ UNCHANGED <<camera, windowOpen, frames, detects, renders, cleanupRuns>>
  /\ UNCHANGED iterVars

\* Mutant of ReadFrame: the break after the failed read is missing, so the
\* iteration goes on with the frame that was not read.
ReadFrameWithoutBreak(r) ==
  /\ pc = "read"
  /\ r = "frame" => frames < MaxFrames
  /\ CASE r = "frame" ->
            /\ frames' = frames + 1
            /\ all_landmarks' = <<>>
            /\ finger_count' = 0
            /\ itSends' = <<>>
            /\ shown' = -1
            /\ pc' = "process"
            /\ UNCHANGED exitReason
       [] r = "noframe" ->
            /\ pc' = "process"
            /\ exitReason' = "readfail"
            /\ UNCHANGED <<frames, all_landmarks, finger_count, itSends, shown>>
       [] OTHER ->
            /\ Handle(r)
            /\ UNCHANGED <<frames, all_landmarks, finger_count, itSends, shown>>
  /\ UNCHANGED <<camera, running, windowOpen, detects, renders, cleanupRuns,
                 mode, outcome>>
  /\ UNCHANGED chanVars

\* Lines 262-266.
ReadFrame(r) ==
  /\ pc = "read"
  /\ r = "frame" => frames < MaxFrames
  /\ IF ~running
     THEN /\ pc' = "cleanup"
          /\ exitReason' = "stopped"
          /\ UNCHANGED <<frames, all_landmarks, finger_count, itSends, shown>>
     ELSE CASE r = "frame" ->
                 /\ frames' = frames + 1
                 /\ all_landmarks' = <<>>
                 /\ finger_count' = 0
                 /\ itSends' = <<>>
                 /\ shown' = -1
                 /\ pc' = "process"
                 /\ UNCHANGED exitReason
            [] r = "noframe" ->
                 /\ pc' = "cleanup"
                 /\ exitReason' = "readfail"
                 /\ UNCHANGED <<frames, all_landmarks, finger_count, itSends, shown>>
            [] OTHER ->
                 /\ Handle(r)
                 /\ UNCHANGED <<frames, all_landmarks, finger_count, itSends, shown>>
  /\ UNCHANGED <<camera, running, windowOpen, detects, renders, cleanupRuns,
                 mode, outcome>>
  /\ UNCHANGED chanVars

\* Mutant of FirstHand: the last reported hand is used.
LastHand(hands) == At(hands, Len(hands) - 1)

\* all_landmarks[0] (line 225).
FirstHand(hands) == At(hands, 0)

\* Mutant of ahmdProcessFrame: the send is not nested under
\* `if all_landmarks`, so the count 0 goes out when no hand is found.
ahmdProcessFrameSendingAlways(hands, d, w) ==
  /\ pc = "process"
  /\ detects' = detects + 1
  /\ IF d # "ok"
     THEN /\ Handle(d)
          /\ UNCHANGED iterVars
          /\ UNCHANGED chanVars
     ELSE /\ all_landmarks' = hands
          /\ LET count == IF hands # <<>> THEN akCountFingers(FirstHand(hands))
                          ELSE 0 IN
             IF isConnected
             THEN /\ akSendData(count, w)
                  /\ itSends' = Append(itSends, count)
                  /\ IF lastCall'.raised # "none"
                     THEN /\ Handle(lastCall'.raised)
                          /\ UNCHANGED finger_count
                     ELSE /\ finger_count' = count
                          /\ pc' = "render"
                          /\ UNCHANGED exitReason
             ELSE /\ finger_count' = count
                  /\ pc' = "render"
                  /\ UNCHANGED <<itSends, exitReason>>
                  /\ UNCHANGED chanVars
          /\ UNCHANGED shown
  /\ UNCHANGED <<camera, running, windowOpen, frames, renders, cleanupRuns,
                 mode, outcome>>

\* Line 268 with ahmdProcessFrame (lines 218-230).  d: what flip/akDetectHands
\* does; hands: the landmarks it returns; w: what the serial write does.
ahmdProcessFrame(hands, d, w) ==
  /\ pc = "process"
  /\ detects' = detects + 1
  /\ IF d # "ok"
     THEN /\ Handle(d)
          /\ UNCHANGED iterVars
          /\ UNCHANGED chanVars
     ELSE /\ all_landmarks' = hands
          /\ IF hands # <<>>
             THEN LET count == akCountFingers(FirstHand(hands)) IN
                  IF isConnected
                  THEN /\ akSendData(count, w)
                       /\ itSends' = Append(itSends, count)
                       /\ IF lastCall'.raised # "none"
                          THEN /\ Handle(lastCall'.raised)
                               /\ UNCHANGED finger_count
                          ELSE /\ finger_count' = count
                               /\ pc' = "render"
                               /\ UNCHANGED exitReason
                  ELSE /\ finger_count' = count
                       /\ pc' = "render"
                       /\ UNCHANGED <<itSends, exitReason>>
                       /\ UNCHANGED chanVars
             ELSE /\ finger_count' = 0
                  /\ pc' = "render"
                  /\ UNCHANGED <<itSends, exitReason>>
                  /\ UNCHANGED chanVars
          /\ UNCHANGED shown
  /\ UNCHANGED <<camera, running, windowOpen, frames, renders, cleanupRuns,
                 mode, outcome>>

\* Mutant of Render: the overlay and cv2.imshow are skipped, the loop goes
\* straight to the poll.
RenderSkipped(r) ==
  /\ pc = "render"
  /\ IF r = "ok"
     THEN /\ pc' = "poll"
          /\ UNCHANGED <<shown, renders, windowOpen, exitReason>>
     ELSE /\ Handle(r)
          /\ UNCHANGED <<shown, renders, windowOpen>>
  /\ UNCHANGED <<camera, running, frames, detects, all_landmarks, finger_count,
                 itSends, cleanupRuns, mode, outcome>>
  /\ UNCHANGED chanVars

\* Lines 269-271: akDrawInterface and cv2.imshow.
Render(r) ==
  /\ pc = "render"
  /\ IF r = "ok"
     THEN /\ shown' = finger_count
          /\ renders' = renders + 1
          /\ windowOpen' = TRUE
          /\ pc' = "poll"
          /\ UNCHANGED exitReason
     ELSE /\ Handle(r)
          /\ UNCHANGED <<shown, renders, windowOpen>>
  /\ UNCHANGED <<camera, running, frames, detects, all_landmarks, finger_count,
                 itSends, cleanupRuns, mode, outcome>>
  /\ UNCHANGED chanVars

\* Lines 273-275: key = cv2.waitKey(1) & 0xFF.
PollKey(k) ==
  /\ pc = "poll"
  /\ IF k % (ByteMask + 1) = EscKey
     THEN /\ pc' = "cleanup"
          /\ exitReason' = "esc"
     ELSE /\ pc' = "read"
          /\ UNCHANGED exitReason
  /\ UNCHANGED <<camera, running, windowOpen, frames, detects, renders,
                 cleanupRuns, mode, outcome>>
  /\ UNCHANGED iterVars
  /\ UNCHANGED chanVars

\* cv2.waitKey raising instead of returning a key.
PollFault(r) ==
  /\ pc = "poll"
  /\ Handle(r)
  /\ UNCHANGED <<camera, running, windowOpen, frames, detects, renders,
                 cleanupRuns, mode, outcome>>
  /\ UNCHANGED iterVars
  /\ UNCHANGED chanVars

\* akCleanupResources (lines 210-216).
akCleanupResources ==
  /\ camera' = IF camera # "None" THEN "released" ELSE camera
  /\ windowOpen' = FALSE
  /\ ahmdDisconnect
  /\ cleanupRuns' = cleanupRuns + 1

\* Mutant of Finally: there is no `except KeyboardInterrupt` clause, so the
\* interrupt goes on out of the function after the cleanup.
FinallyReraisingInterrupt ==
  /\ pc = "cleanup"
  /\ akCleanupResources
  /\ pc' = "done"
  /\ outcome' = IF exitReason = "interrupt" THEN "raised" ELSE "returned"
  /\ UNCHANGED <<running, frames, detects, renders, exitReason, mode>>
  /\ UNCHANGED iterVars

\* The finally clause (lines 281-282), then the function returns.
Finally ==
  /\ pc = "cleanup"
  /\ akCleanupResources
  /\ pc' = "done"
  /\ outcome' = "returned"
  /\ UNCHANGED <<running, frames, detects, renders, exitReason, mode>>
  /\ UNCHANGED iterVars

\* ahmdRunMainLoop
Next ==
  \/ \E c \in CameraOutcomes : StartCamera(c)
  \/ \E o \in ConnectOutcomes : StartConnect(o)
  \/ \E r \in ReadOutcomes : ReadFrame(r)
  \/ \E hands \in HandLists, d \in StepOutcomes, w \in WriteOutcomes :
        ahmdProcessFrame(hands, d, w)
  \/ \E r \in StepOutcomes : Render(r)
  \/ \E k \in KeyCodes : PollKey(k)
  \/ \E r \in StepOutcomes \ {"ok"} : PollFault(r)
  \/ Finally

Spec == Init /\ [][Next]_vars

\* The run with its scheduling: the one thread of the program keeps taking
\* its next step as long as it has one.
LiveSpec == Init /\ [][Next]_vars /\ WF_vars(Next)

\* ============================================================ claims
\* The reasons for leaving the frame loop.
LoopExits == {"esc", "readfail", "interrupt", "exception"}

\* The frame loop has been entered: the startup connect has returned.
LoopEntered == mode # "starting"

\* No serial transport is open.
NoPortOpen == \A p \in Ports : portState[p] \notin {"booting", "ready"}

\* C1: on every exit from the frame loop (ESC, read failure, interrupt, or an
\* exception raised in an iteration) akCleanupResources runs exactly once: it
\* has not run before the finally clause, and once the function has ended it
\* has run once, the camera is released, the windows are closed and the
\* channel is disconnected with its transport closed.
C1_ShutdownOnceOnLoopExit ==
  /\ cleanupRuns <= 1
  /\ (LoopEntered /\ pc \notin LoopPcs) =>
       \/ pc = "cleanup" /\ cleanupRuns = 0
       \/ /\ pc = "done"
          /\ cleanupRuns = 1
          /\ calls.disconnect = 1
          /\ camera = "released"
          /\ ~windowOpen
          /\ ~isConnected
          /\ NoPortOpen

\* C1 witness: a connected run that showed a frame, left the loop through a
\* caught exception and has finished its cleanup.
C1_Witness ==
  /\ pc = "done"
  /\ exitReason = "exception"
  /\ mode = "connected"
  /\ renders >= 1
  /\ cleanupRuns = 1
  /\ portState[1] = "closed"

\* C2 (as claimed): the shutdown sequence has run once on every exit path of
\* ahmdRunMainLoop, the exits before the frame loop included: a camera that
\* fails to initialize, and a fault or interrupt in the startup connect.
C2_ShutdownOnEveryExit ==
  (pc = "done" /\ exitReason \in {"camfail", "connectfault"} \cup LoopExits) =>
    cleanupRuns = 1

\* C9: if the camera fails to initialize the run is over at once: no connect
\* is attempted, no frame is read, no detection runs and no send is made.
C9_CameraFailureAborts ==
  (pc # "init" /\ camera \in {"None", "closed"}) =>
    /\ pc = "done"
    /\ calls.connect = 0
    /\ calls.send = 0
    /\ frames = 0
    /\ detects = 0
    /\ wire = <<>>
    /\ arduino = None

\* C9 witness: the run has returned after VideoCapture did not open.
C9_Witness ==
  /\ pc = "done"
  /\ exitReason = "camfail"
  /\ camera = "closed"
  /\ outcome = "returned"

\* A step that calls the named channel method.
ConnectStep == calls'.connect = calls.connect + 1
SendStep == calls'.send = calls.send + 1
DisconnectStep == calls'.disconnect = calls.disconnect + 1

\* C7 (as claimed): whatever error the transport write raises, akSendData
\* turns it into a False return value and lets nothing out, so the loop goes
\* on to render the frame.
C7_SendErrorNeverPropagates ==
  [][(pc = "process" /\ SendStep /\ lastCall'.env \in {"SerialException", "OSError"})
       => /\ lastCall'.ret = "False"
          /\ lastCall'.raised = "none"
          /\ pc' = "render"]_vars

\* C8: if the startup connect fails the run goes on into the frame loop, and
\* from then on connect is never called again, the channel is never
\* connected, akSendData is never called and no byte reaches a transport.
C8_DegradedMode ==
  /\ [][(pc = "connect" /\ ConnectStep /\ lastCall'.env = "SerialException")
          => (pc' = "read" /\ running' /\ mode' = "camera-only")]_vars
  /\ [](mode = "camera-only" =>
          /\ calls.connect = 1
          /\ calls.send = 0
          /\ ~isConnected
          /\ wire = <<>>
          /\ NoPortOpen)

\* C8 witness: a run whose startup connect failed has processed a frame with
\* a hand in it and shown it.
C8_Witness ==
  /\ mode = "camera-only"
  /\ pc = "poll"
  /\ frames = MaxFrames
  /\ all_landmarks = <<ThreeHand>>
  /\ shown = 3

\* C10: in an iteration where the detector reports at least one hand and the
\* channel is connected, exactly one akSendData call is made, and it carries
\* the finger count of the first hand; a first hand with three extended
\* fingers gives one send of the value 3.
C10_OneSendOfFirstHand ==
  (pc \in LoopPcs \cup {"cleanup"} /\ isConnected /\ all_landmarks # <<>>) =>
    /\ Len(itSends) = 1
    /\ itSends[1] = akCountFingers(all_landmarks[1])
    /\ all_landmarks[1] = ThreeHand => itSends = <<3>>
    /\ all_landmarks[1] = OpenHand => itSends = <<5>>

\* C10 witness: two hands were reported, the first with three fingers, the
\* second open, and the value 3 went out on the wire.
C10_Witness ==
  /\ pc = "render"
  /\ isConnected
  /\ all_landmarks = <<ThreeHand, OpenHand>>
  /\ itSends = <<3>>
  /\ wire # <<>>
  /\ wire[Len(wire)] = <<arduino, <<51>>>>

\* C3: whenever the channel is not connected (never connected, connect
\* failed, or disconnected), akSendData returns False, raises nothing, writes
\* no byte to any transport and leaves the channel as it was.
C3_SendWhenNotConnected ==
  [][(SendStep /\ ~isConnected) =>
       /\ lastCall'.ret = "False"
       /\ lastCall'.raised = "none"
       /\ wire' = wire
       /\ isConnected' = isConnected
       /\ arduino' = arduino
       /\ portState' = portState
       /\ closeCalls' = closeCalls]_vars

\* C3 witness: a send refused on a channel that was connected and then
\* disconnected.
C3_Witness ==
  /\ lastCall.op = "send"
  /\ lastCall.prev = "disconnect"
  /\ lastCall.ret = "False"
  /\ ~isConnected
  /\ arduino # None
  /\ portState[arduino] = "closed"

\* C4: ahmdDisconnect raises nothing in any state; on a connected channel it
\* closes the transport (one close call) and leaves the channel not
\* connected; on any other channel, and so on a second call in a row, it
\* changes nothing and closes nothing; no transport is ever closed twice.
C4_DisconnectIdempotent ==
  /\ [][DisconnectStep =>
          /\ lastCall'.raised = "none"
          /\ ~isConnected'
          /\ arduino' = arduino
          /\ wire' = wire
          /\ IF isConnected
             THEN /\ arduino # None
                  /\ portState' = [portState EXCEPT ![arduino] = "closed"]
                  /\ closeCalls' = [closeCalls EXCEPT ![arduino] = @ + 1]
             ELSE /\ portState' = portState
                  /\ closeCalls' = closeCalls
          /\ lastCall.op = "disconnect" =>
               /\ isConnected' = isConnected
               /\ portState' = portState
               /\ closeCalls' = closeCalls]_vars
  /\ [](\A p \in Ports : closeCalls[p] <= 1)

\* C4 witness: two disconnect calls in a row after a successful connect; the
\* transport has been closed once.
C4_Witness ==
  /\ lastCall.op = "disconnect"
  /\ lastCall.prev = "disconnect"
  /\ ~isConnected
  /\ arduino # None
  /\ portState[arduino] = "closed"
  /\ closeCalls[arduino] = 1

C6_SendKeepsState ==
  [][SendStep =>
       /\ isConnected' = isConnected
       /\ arduino' = arduino
       /\ portState' = portState
       /\ (isConnected /\ lastCall'.env = "SerialException") =>
            /\ lastCall'.ret = "False"
            /\ lastCall'.raised = "none"
            /\ wire' = wire
            /\ isConnected'
            /\ ~SendRefused'
       /\ (isConnected /\ lastCall'.env = "ok") =>
            /\ lastCall'.ret = "True"
            /\ Len(wire') = Len(wire) + 1
            /\ isConnected'
       /\ (isConnected /\ lastCall.op = "send" /\ lastCall.env = "SerialException") =>
            lastCall'.env # "none"]_vars

\* C6 witness: two sends in a row on a connected channel, the first write
\* failed and the second went out.
C6_Witness ==
  /\ lastCall.op = "send"
  /\ lastCall.prev = "send"
  /\ lastCall.env = "ok"
  /\ isConnected
  /\ calls.send = 2
  /\ Len(wire) = 1

\* C11: in an iteration where the detector reports no hand, akSendData is not
\* called whatever the connection state, the finger count is 0 and 0 is what
\* the overlay shows, and the loop goes on: it leaves the detection step only
\* for the render step or through an exception, and it leaves the poll only
\* for the next read, on ESC, or through an exception.
C11_NoHandNoSend ==
  /\ []((pc \in {"render", "poll"} /\ all_landmarks = <<>>) =>
          /\ itSends = <<>>
          /\ finger_count = 0
          /\ pc = "poll" => shown = 0)
  /\ [][(pc = "process" /\ pc' = "render" /\ all_landmarks' = <<>>) =>
          /\ calls' = calls
          /\ wire' = wire
          /\ lastCall' = lastCall]_vars
  /\ [][(pc = "process" /\ pc' # "render") =>
          (pc' = "cleanup" /\ exitReason' \in {"interrupt", "exception"})]_vars
  /\ [][(pc = "poll" /\ pc' # "read") =>
          (pc' = "cleanup" /\ exitReason' \in {"esc", "interrupt", "exception"})]_vars

\* C11 witness: on a connected channel an iteration without a hand has shown
\* the count 0, sent nothing, and the loop is back at the next read.
C11_Witness ==
  /\ pc = "read"
  /\ frames = 1
  /\ isConnected
  /\ all_landmarks = <<>>
  /\ shown = 0
  /\ calls.send = 0
  /\ exitReason = "none"

\* C12: when camera.read() fails on iteration N the loop ends there: the
\* N-1 iterations before it have each run their detection and shown their
\* frame (with the one send of an iteration that had a hand on a connected
\* channel), iteration N detects, sends and shows nothing, no further frame
\* is read, and the cleanup runs exactly once.
C12_ReadFailureEndsLoop ==
  /\ [](pc = "read" => (detects = frames /\ renders = frames))
  /\ [](exitReason = "readfail" =>
          /\ detects = frames
          /\ renders = frames
          /\ frames >= 1 => shown = finger_count
          /\ (frames >= 1 /\ all_landmarks # <<>> /\ mode = "connected") =>
               Len(itSends) = 1
          /\ \/ pc = "cleanup" /\ cleanupRuns = 0
             \/ pc = "done" /\ cleanupRuns = 1)
  /\ [][exitReason = "readfail" =>
          /\ frames' = frames
          /\ detects' = detects
          /\ renders' = renders
          /\ calls'.send = calls.send
          /\ wire' = wire]_vars

\* C12 witness: the read failed after MaxFrames complete iterations, at least
\* one of which sent a count, and the run has finished its cleanup.
C12_Witness ==
  /\ exitReason = "readfail"
  /\ pc = "done"
  /\ frames = MaxFrames
  /\ renders = MaxFrames
  /\ calls.send >= 1
  /\ cleanupRuns = 1

\* C13: an exception raised in an iteration's detection, transmission or
\* rendering step is caught in ahmdRunMainLoop and ends the loop: the
\* iteration is not retried, no later frame is read, no later send is made,
\* the cleanup runs and the function returns instead of raising.
C13_FaultEndsLoop ==
  /\ [](exitReason = "exception" =>
          \/ pc = "cleanup" /\ cleanupRuns = 0 /\ outcome = "running"
          \/ pc = "done" /\ cleanupRuns = 1 /\ outcome = "returned")
  /\ [][exitReason = "exception" =>
          /\ frames' = frames
          /\ detects' = detects
          /\ renders' = renders
          /\ calls'.send = calls.send
          /\ wire' = wire]_vars

\* C13 witness: the render step of the second iteration raised after a send
\* had gone out; the run has cleaned up and returned.
C13_Witness ==
  /\ exitReason = "exception"
  /\ pc = "done"
  /\ outcome = "returned"
  /\ frames = 2
  /\ renders = 1
  /\ detects = 2
  /\ lastCall.op = "disconnect"
  /\ wire # <<>>

\* C14: once the loop is running, a cancel signal (ESC seen at the poll, or
\* an interrupt) or a failed frame read is followed by the end of the run:
\* the cleanup has run once and ahmdRunMainLoop has returned without raising.
C14_CleanTermination ==
  (LoopEntered /\ exitReason \in {"esc", "interrupt", "readfail"})
    ~> (pc = "done" /\ outcome = "returned" /\ cleanupRuns = 1 /\ NoPortOpen)

\* C14 witness: a connected run interrupted in its second iteration has
\* cleaned up and returned.
C14_Witness ==
  /\ exitReason = "interrupt"
  /\ pc = "done"
  /\ outcome = "returned"
  /\ mode = "connected"
  /\ frames = 2
  /\ cleanupRuns = 1
  /\ NoPortOpen

\* The landmark list akCountFingers was applied to under CountSpec.
CountedHand == At(all_landmarks, 0)

\* C15: akCountFingers is total: on a list of exactly 21 landmarks it gives an
\* integer from 0 to 5, and on any other list, the empty one included, it
\* gives 0; the list it was given is as it was.
C15_CountIsTotal ==
  /\ all_landmarks \in { <<h>> : h \in CountHands }
  /\ pc = "counted" =>
       /\ finger_count \in 0..5
       /\ Len(CountedHand) # LandmarkCount => finger_count = 0

\* C15 witness: a list of 22 landmarks, the first 21 an open hand, counted 0.
C15_Witness ==
  /\ pc = "counted"
  /\ Len(CountedHand) = LandmarkCount + 1
  /\ SubSeq(CountedHand, 1, LandmarkCount) = OpenHand
  /\ finger_count = 0

\* |a - b|
Distance(a, b) == IF a >= b THEN a - b ELSE b - a

\* The horizontal centre of a hand: the x of the middle finger's base (id 9),
\* the middle of the palm.
HandCenterX(h) == At(At(h, 9), 1)

\* The count the claim describes: the thumb counts when its tip is further
\* from the centre than its joint, another finger when its tip's y is less
\* than that of the landmark two below it.
ClaimedCount(h) ==
  LET thumb == IF Distance(At(At(h, 4), 1), HandCenterX(h))
                    > Distance(At(At(h, 3), 1), HandCenterX(h))
               THEN 1 ELSE 0
      finger(t) == IF At(At(h, t), 2) < At(At(h, t - 2), 2) THEN 1 ELSE 0
  IN thumb + finger(8) + finger(12) + finger(16) + finger(20)

\* C16 (as claimed): on a hand of 21 landmarks akCountFingers gives the
\* number of fingers extended by the claim's rule, with the thumb on either
\* side of the centre: 5 for the open hand, 0 for the fist.
C16_CountMatchesRule ==
  (pc = "counted" /\ Len(CountedHand) = LandmarkCount) =>
    finger_count = ClaimedCount(CountedHand)

C18_NoWriteBeforeSettled ==
  [][(SendStep /\ wire' # wire) => portState[arduino] = "ready"]_vars

\* C20: after any sequence of ahmdConnect, akSendData and ahmdDisconnect
\* calls, isConnected is true exactly when a port opened by the channel is
\* still open.
C20_FlagMeansOpenPort ==
  isConnected <=> (\E p \in Ports : portState[p] \in {"booting", "ready"})

\* C19: every write of the control loop is the single character "0".."5" of
\* that iteration's finger count, with nothing before or after it; there is
\* at most one write per iteration; and the count shown in the overlay of the
\* iteration equals the value written.
C19_WireFormat ==
  /\ [][wire' # wire =>
          /\ pc = "process"
          /\ itSends = <<>>
          /\ Len(wire') = Len(wire) + 1
          /\ finger_count' \in 0..5
          /\ finger_count' = akCountFingers(At(all_landmarks', 0))
          /\ wire'[Len(wire')] = <<arduino, <<AsciiZero + finger_count'>>>>
          /\ \A k \in 1..Len(wire) : wire'[k] = wire[k]]_vars
  /\ [](Len(wire) <= frames)
  /\ []((pc = "poll" /\ itSends # <<>> /\ lastCall.ret = "True") =>
          /\ Len(itSends) = 1
          /\ shown = At(itSends, 0)
          /\ wire[Len(wire)] = <<arduino, <<AsciiZero + shown>>>>)

\* C19 witness: a count of three was written as the one byte "3" and the
\* overlay of the same iteration shows 3.
C19_Witness ==
  /\ pc = "poll"
  /\ frames = 2
  /\ shown = 3
  /\ itSends = <<3>>
  /\ Len(wire) = 2
  /\ wire[2] = <<arduino, <<51>>>>

====
